---- MODULE Spec2Model ----
(***************************************************************************)
(* NozyWallet: the shielded-note ledger (src/src/notes.rs) and the         *)
(* transaction signer that owns it (src/src/transaction_signer.rs).        *)
(*                                                                         *)
(* Digests are modelled as terms of a free algebra: a BLAKE2b / SHA-256    *)
(* digest of the byte strings x1 || x2 || ... is the tuple <<tag, x1, x2,  *)
(* ...>>, so two digests are equal exactly when they hash the same inputs  *)
(* (a collision-free hash).  Option<T> is a sequence of length 0 or 1.     *)
(* u64 is modelled with U64Bits bits; an overflowing addition panics in a  *)
(* build with overflow checks and wraps modulo 2^U64Bits otherwise.        *)
(***************************************************************************)
EXTENDS Integers, Sequences, FiniteSets, TLC

\* ------------------------------------------------------------------ bounds
\* Number of create_note calls explored (fresh randomness values drawn).
MaxNotes == 3
\* Number of create_note calls explored under the signer.
SignerMaxNotes == 2
\* Number of create_note calls and of ledger notes explored under the lifecycle
\* specification (consolidate_notes may create one note more).
MaxLedgerNotes == 2
\* Width of the modelled u64.
U64Bits == 16
\* Number of create_note calls and of ledger notes explored under the strategy
\* specification.
MaxStrategyNotes == 3
\* NoteManagerConfig::max_consolidation_notes (10 in NoteManager::new), scaled so
\* that a ledger of more small notes than this is within reach.
max_consolidation_notes == 2
\* Depth of the commitment tree (32 in NoteManager::new), scaled so that a tree
\* of 2^depth leaves is within reach.
TreeDepth == 1

U64Mod == 2 ^ U64Bits

\* ------------------------------------------------------- program constants
min_consolidation_value == 10000

\* ------------------------------------------------------------------ inputs
None == << >>
Some(x) == << x >>

NoteTypes == {"Orchard", "Sapling"}
Strategies == {"PrivacyFirst", "EfficiencyFirst", "Balanced", "ValueBased", "AgeBased"}
StrategyArgs == {None} \cup {Some(s) : s \in Strategies}

\* Arguments of create_note explored: two notes below the consolidation
\* threshold and one of half the u64 range (two of them overflow a u64 sum).
NoteInputs ==
    { [value |-> 3000, note_type |-> "Orchard", block_height |-> 2],
      [value |-> 9000, note_type |-> "Sapling", block_height |-> 1],
      [value |-> U64Mod \div 2, note_type |-> "Orchard", block_height |-> 1] }
\* The ledger specification needs no large values.
LedgerNoteInputs ==
    { [value |-> 3000, note_type |-> "Orchard", block_height |-> 2],
      [value |-> 9000, note_type |-> "Sapling", block_height |-> 1] }
Addresses == {"u1addr"}
Amounts == {0, 10000, U64Mod - 1}
Passwords == {"default_password", "wrong_password"}
SpentHeights == {1, 2}
\* Notes of the values 100, 300 and 250 of the selection scenario.
StrategyNoteInputs ==
    {[value |-> 100, note_type |-> "Sapling", block_height |-> 3],
     [value |-> 300, note_type |-> "Orchard", block_height |-> 1],
     [value |-> 250, note_type |-> "Sapling", block_height |-> 2]}
StrategyAmounts == {400}
\* Amounts whose selection takes no note, one or two notes, or fails.
FeeAmounts == {0, 9000, 20000}
\* Notes whose running total passes the width of u64 before the amount is met.
WrapNoteInputs ==
    {[value |-> U64Mod \div 2, note_type |-> "Orchard", block_height |-> 1],
     [value |-> U64Mod - 1, note_type |-> "Orchard", block_height |-> 1]}
UnknownId == <<"id", <<"zero">>, "nobody">>

VARIABLES
    notes,               \* NoteManager.notes: HashMap<String, ShieldedNote>
    iter_order,          \* the iteration order of that HashMap (a sequence of its keys)
    commitment_tree,     \* NoteManager.commitment_tree
    enable_consolidation,\* NoteManager.config.enable_consolidation
    rng,                 \* number of 32-byte values drawn from rand::thread_rng()
    held,                \* the notes returned to the caller by create_note / consolidate_notes
    overflow_checks,     \* whether the build panics on integer overflow (debug) or wraps (release)
    signing_keys,        \* TransactionSigner.signing_keys: HashMap<String, SigningKey>
    tx,                  \* the transfer the caller holds (None before the first build)
    last                 \* the last call made and what it returned

vars == <<notes, iter_order, commitment_tree, enable_consolidation, rng, held,
          overflow_checks, signing_keys, tx, last>>

ledgerVars == <<notes, iter_order, commitment_tree, enable_consolidation, rng, held>>
signerVars == <<signing_keys, tx>>

\* ------------------------------------------------------------------ helpers
RECURSIVE SumSeq(_)
SumSeq(s) == IF s = << >> THEN 0 ELSE s[1] + SumSeq(Tail(s))

Values(ns) == [k \in 1..Len(ns) |-> ns[k].value]

IsPrefix(s, t) == Len(s) <= Len(t) /\ SubSeq(t, 1, Len(s)) = s

\* Rust's slice::sort_by is a stable sort: the element at index i goes after
\* every element with a smaller key and every earlier element with an equal key.
SortRank(keys, i) ==
    Cardinality({j \in 1..Len(keys) : keys[j] < keys[i] \/ (keys[j] = keys[i] /\ j < i)}) + 1

StableSortByKey(items, keys) ==
    [p \in 1..Len(items) |-> items[CHOOSE i \in 1..Len(items) : SortRank(keys, i) = p]]

\* ------------------------------------------------------------------ digests
Zero32 == <<"zero">>

Blake2bPair(a, b) == <<"blake2b", a, b>>

calculate_note_commitment(value, recipient_address, randomness, note_type) ==
    <<"commitment", value, recipient_address, randomness,
      IF note_type = "Orchard" THEN "orchard" ELSE "sapling">>

generate_note_id(commitment, address) == <<"id", commitment, address>>

generate_note_nullifier(note) ==
    <<"nullifier", note.commitment, note.randomness,
      IF note.note_type = "Orchard" THEN "orchard_nullifier" ELSE "sapling_nullifier">>

\* ------------------------------------------------------------ commitment tree
\* One pass of the `for chunk in current_level.chunks(2)` loop.
NextLevel(level) ==
    [k \in 1..((Len(level) + 1) \div 2) |->
        IF 2 * k <= Len(level)
        THEN Blake2bPair(level[2 * k - 1], level[2 * k])
        ELSE Blake2bPair(level[2 * k - 1], level[2 * k - 1])]

RECURSIVE ReduceLevels(_)
ReduceLevels(current_level) ==
    IF Len(current_level) > 1
    THEN ReduceLevels(NextLevel(current_level))
    ELSE current_level[1]

\* Mutant: an odd level is padded with the zero digest instead of duplicating
\* its last node.
RECURSIVE ReduceLevelsZeroPadded(_)
ReduceLevelsZeroPadded(current_level) ==
    IF Len(current_level) > 1
    THEN ReduceLevelsZeroPadded(
             [k \in 1..((Len(current_level) + 1) \div 2) |->
                 Blake2bPair(current_level[2 * k - 1],
                             IF 2 * k <= Len(current_level) THEN current_level[2 * k]
                             ELSE Zero32)])
    ELSE current_level[1]

calculate_tree_root_zero_padded(nodes) ==
    IF nodes = << >> THEN Zero32 ELSE ReduceLevelsZeroPadded(nodes)

calculate_tree_root(nodes) ==
    IF nodes = << >> THEN Zero32 ELSE ReduceLevels(nodes)

\* The `while current_level_size > 1` loop; positions are 0-based as in the code,
\* nodes is 1-based.
RECURSIVE MerklePathLoop(_, _, _, _)
MerklePathLoop(nodes, current_pos, current_level_size, path) ==
    IF current_level_size > 1
    THEN LET sibling_pos == IF current_pos % 2 = 0 THEN current_pos + 1 ELSE current_pos - 1
             entry == IF sibling_pos < current_level_size
                      THEN nodes[sibling_pos + 1]
                      ELSE nodes[current_pos + 1]
         IN MerklePathLoop(nodes, current_pos \div 2, (current_level_size + 1) \div 2,
                           Append(path, entry))
    ELSE path

calculate_merkle_path(tree, position) ==
    MerklePathLoop(tree.nodes, position, tree.size, << >>)

\* Mutant: the commitment is inserted in front of the leaves (insert(0, ..) for push).
add_note_to_tree_prepend(tree, ns, note) ==
    LET t1 == [tree EXCEPT !.nodes = <<note.commitment>> \o tree.nodes, !.size = tree.size + 1]
    IN [tree |-> [t1 EXCEPT !.root = calculate_tree_root(t1.nodes)], notes |-> ns]

\* Mutant: the root also depends on how many notes the ledger holds.
add_note_to_tree_ledger_keyed(tree, ns, note) ==
    LET pushed == Append(tree.nodes, note.commitment)
        t1 == [tree EXCEPT !.nodes = pushed, !.size = tree.size + 1]
    IN [tree |-> [t1 EXCEPT !.root = <<"blake2b", calculate_tree_root(t1.nodes),
                                       Cardinality(DOMAIN ns)>>],
        notes |-> ns]

\* add_note_to_tree: returns the new tree and the new notes map.
add_note_to_tree(tree, ns, note) ==
    LET pushed == Append(tree.nodes, note.commitment)
        t1 == [tree EXCEPT !.nodes = pushed, !.size = tree.size + 1]
        t2 == [t1 EXCEPT !.root = calculate_tree_root(t1.nodes)]
        position == t2.size - 1
        merkle_path == calculate_merkle_path(t2, position)
    IN [tree |-> t2,
        notes |-> IF note.id \in DOMAIN ns
                  THEN [ns EXCEPT ![note.id].position = Some(position),
                                  ![note.id].merkle_path = Some(merkle_path)]
                  ELSE ns]

\* create_note: `randomness` is what the RNG returned.
create_note(tree, ns, value, recipient_address, note_type, block_height, randomness) ==
    LET commitment == calculate_note_commitment(value, recipient_address, randomness, note_type)
        note == [id |-> generate_note_id(commitment, recipient_address),
                 note_type |-> note_type,
                 value |-> value,
                 commitment |-> commitment,
                 nullifier |-> None,
                 recipient_address |-> recipient_address,
                 randomness |-> randomness,
                 created_at_height |-> block_height,
                 spent_at_height |-> None,
                 merkle_path |-> None,
                 position |-> None]
        added == add_note_to_tree(tree, ns, note)
    IN [tree |-> added.tree, notes |-> added.notes, note |-> note]

\* ------------------------------------------------------------------ ledger
\* HashMap::insert: an existing key keeps its slot, a new key lands in a slot
\* the hasher picks (position p of the iteration order).
MapInsert(ns, key, val) ==
    [k \in DOMAIN ns \cup {key} |-> IF k = key THEN val ELSE ns[k]]

OrderInsert(order, key, p) ==
    IF \E k \in 1..Len(order) : order[k] = key
    THEN order
    ELSE SubSeq(order, 1, p) \o <<key>> \o SubSeq(order, p + 1, Len(order))

\* The iteration orders a HashMap holding the keys of `order` can have: the
\* hasher of each HashMap instance is seeded at random, so an independently
\* built ledger of the same notes iterates in any order.
IterationOrders(order) ==
    {o \in [1..Len(order) -> {order[k] : k \in 1..Len(order)}] :
        \A i, j \in 1..Len(order) : i # j => o[i] # o[j]}

\* notes.values()
MapValues(ns, order) == [k \in 1..Len(order) |-> ns[order[k]]]

IsUnspent(note) == note.nullifier = None

\* Mutant: spent notes are not filtered out.
get_unspent_notes_unfiltered(ns, order) == MapValues(ns, order)

get_unspent_notes(ns, order) == SelectSeq(MapValues(ns, order), IsUnspent)

\* Mutant: an unknown id marks every note of the ledger.
mark_note_spent_unknown_marks_all(ns, note_id, spent_height) ==
    [id \in DOMAIN ns |->
        IF note_id = id \/ note_id \notin DOMAIN ns
        THEN [ns[id] EXCEPT !.spent_at_height = Some(spent_height),
                            !.nullifier = Some(generate_note_nullifier(ns[id]))]
        ELSE ns[id]]

\* Mutant: the height is recorded without the nullifier.
mark_note_spent_height_only(ns, note_id, spent_height) ==
    IF note_id \in DOMAIN ns
    THEN [ns EXCEPT ![note_id].spent_at_height = Some(spent_height)]
    ELSE ns

mark_note_spent(ns, note_id, spent_height) ==
    IF note_id \in DOMAIN ns
    THEN [ns EXCEPT ![note_id].spent_at_height = Some(spent_height),
                    ![note_id].nullifier = Some(generate_note_nullifier(ns[note_id]))]
    ELSE ns

RECURSIVE MarkAllSpent(_, _, _)
MarkAllSpent(ns, ids, spent_height) ==
    IF ids = << >> THEN ns
    ELSE MarkAllSpent(mark_note_spent(ns, ids[1], spent_height), Tail(ids), spent_height)

\* ------------------------------------------------------------------ selection
DefaultStrategy == "PrivacyFirst"

SortKey(strategy, note) ==
    CASE strategy = "PrivacyFirst" -> IF note.note_type = "Orchard" THEN 0 ELSE 1
      [] strategy = "EfficiencyFirst" -> IF note.note_type = "Sapling" THEN 0 ELSE 1
      [] strategy = "ValueBased" -> 0 - note.value
      [] strategy = "AgeBased" -> note.created_at_height
      [] OTHER -> 0

\* Mutant: every strategy keeps the iteration order (no sort).
SortForStrategyKeepsOrder(unspent_notes, strategy) == unspent_notes

SortForStrategy(unspent_notes, strategy) ==
    StableSortByKey(unspent_notes,
                    [k \in 1..Len(unspent_notes) |-> SortKey(strategy, unspent_notes[k])])

\* The `for note in unspent_notes` loop with `total_selected += note.value` on u64.
RECURSIVE SelectLoop(_, _, _, _, _, _)
SelectLoop(sorted, i, amount, selected_notes, total_selected, checks) ==
    IF i > Len(sorted) \/ total_selected >= amount
    THEN [panic |-> FALSE, selected_notes |-> selected_notes, total_selected |-> total_selected]
    ELSE IF total_selected + sorted[i].value >= U64Mod /\ checks
    THEN [panic |-> TRUE, selected_notes |-> selected_notes, total_selected |-> total_selected]
    ELSE SelectLoop(sorted, i + 1, amount, Append(selected_notes, sorted[i]),
                    (total_selected + sorted[i].value) % U64Mod, checks)

select_notes_for_spending(ns, order, amount, strategy, checks) ==
    LET chosen == IF strategy = None THEN DefaultStrategy ELSE strategy[1]
        sorted == SortForStrategy(get_unspent_notes(ns, order), chosen)
        r == SelectLoop(sorted, 1, amount, << >>, 0, checks)
    IN IF r.panic
       THEN [kind |-> "Panic"]
       ELSE IF r.total_selected < amount
       THEN [kind |-> "InsufficientFunds", required |-> amount, available |-> r.total_selected]
       ELSE [kind |-> "Ok", notes |-> r.selected_notes]

\* consolidate_notes: `randomness` is what the RNG returns if create_note is reached.
\* The sum of at most max_consolidation_notes values below min_consolidation_value
\* cannot overflow a u64.
IsSmallUnspent(note) == note.nullifier = None /\ note.value < min_consolidation_value

Min(a, b) == IF a <= b THEN a ELSE b

consolidate_notes(tree, ns, order, enabled, randomness) ==
    LET small == SelectSeq(MapValues(ns, order), IsSmallUnspent)
        small_note_ids == [k \in 1..Len(small) |-> small[k].id]
        small_notes == StableSortByKey(small, Values(small))
        notes_to_consolidate ==
            SubSeq(small_notes, 1, Min(max_consolidation_notes, Len(small_notes)))
        total_value == SumSeq(Values(notes_to_consolidate))
        created == create_note(tree, ns, total_value, notes_to_consolidate[1].recipient_address,
                               "Orchard", 0, randomness)
    IN IF ~enabled \/ Len(small_note_ids) < 2
       THEN [tree |-> tree, notes |-> ns, result |-> << >>]
       ELSE [tree |-> created.tree,
             notes |-> MarkAllSpent(created.notes, small_note_ids, 0),
             result |-> <<created.note>>]

\* get_total_balance: Iterator::sum over u64.
RECURSIVE SumU64(_, _)
SumU64(vals, checks) ==
    IF vals = << >> THEN [panic |-> FALSE, value |-> 0]
    ELSE LET r == SumU64(SubSeq(vals, 1, Len(vals) - 1), checks)
             v == r.value + vals[Len(vals)]
         IN IF r.panic \/ (v >= U64Mod /\ checks)
            THEN [panic |-> TRUE, value |-> 0]
            ELSE [panic |-> FALSE, value |-> v % U64Mod]

get_total_balance(ns, order, checks) == SumU64(Values(get_unspent_notes(ns, order)), checks)

get_unspent_notes_by_type(ns, order, note_type) ==
    SelectSeq(MapValues(ns, order),
              LAMBDA note : note.note_type = note_type /\ note.nullifier = None)

get_balance_by_type(ns, order, note_type, checks) ==
    SumU64(Values(get_unspent_notes_by_type(ns, order, note_type)), checks)

\* ------------------------------------------------------------------ signer
\* HDWallet::new_from_seed: the master key encrypted under "default_password".
hd_wallet ==
    [encrypted_master_key |-> Some([key |-> "master_key", password |-> "default_password"])]

\* AES-256-GCM decryption fails unless the password is the one the key was encrypted under.
get_master_key(wallet, password) ==
    IF wallet.encrypted_master_key = None
    THEN [kind |-> "InvalidOperation"]
    ELSE IF wallet.encrypted_master_key[1].password # password
    THEN [kind |-> "InvalidOperation"]
    ELSE [kind |-> "Ok", key |-> wallet.encrypted_master_key[1].key]

get_change_address == "o:m/44'/133'/0'/1/0"

\* Ed25519: a signature verifies under a public key exactly when it was made
\* with the matching signing key over the same message.
SigningKey_from_bytes(key_material) == <<"ed25519_sk", key_material>>
verifying_key(signing_key) == [len |-> 32, point |-> <<"ed25519_pk", signing_key[2]>>]
sign(signing_key, message) ==
    [len |-> 64, sig |-> <<"ed25519_sig", signing_key[2], message>>]
IsValidPoint(public_key) == public_key.point[1] = "ed25519_pk"
verify(public_key, message, signature) ==
    signature.sig = <<"ed25519_sig", public_key.point[2], message>>

calculate_transaction_hash(inputs, outputs, fee, expiry_height) ==
    <<"tx_hash",
      [k \in 1..Len(inputs) |-> <<inputs[k].note.commitment, inputs[k].position>>],
      [k \in 1..Len(outputs) |-> <<outputs[k].address, outputs[k].value, outputs[k].memo>>],
      fee, expiry_height>>

\* build_transaction_with_notes; the three u64 operations are `amount + fee`,
\* the sum of the input values and `total_input - total_needed`.
build_transaction_with_notes(ns, order, recipient_address, amount, fee, memo, expiry_height, strategy, checks) ==
    LET total_needed == (amount + fee) % U64Mod
        sel == select_notes_for_spending(ns, order, total_needed, strategy, checks)
        total_input == SumU64(Values(sel.notes), checks)
        change_amount == (total_input.value - total_needed) % U64Mod
        inputs == [k \in 1..Len(sel.notes) |->
                     [note |-> sel.notes[k],
                      merkle_path |-> IF sel.notes[k].merkle_path = None THEN << >>
                                      ELSE sel.notes[k].merkle_path[1],
                      position |-> IF sel.notes[k].position = None THEN 0
                                   ELSE sel.notes[k].position[1]]]
        recipient == [address |-> recipient_address, value |-> amount, memo |-> memo,
                      address_type |-> "Orchard"]
        change == [address |-> get_change_address, value |-> change_amount, memo |-> None,
                   address_type |-> "Orchard"]
        outputs == IF change_amount > 0 THEN <<recipient, change>> ELSE <<recipient>>
    IN IF amount + fee >= U64Mod /\ checks THEN [kind |-> "Panic"]
       ELSE IF sel.kind # "Ok" THEN sel
       ELSE IF total_input.panic \/ (total_input.value < total_needed /\ checks)
       THEN [kind |-> "Panic"]
       ELSE [kind |-> "Ok",
             transaction |->
                [inputs |-> inputs,
                 outputs |-> outputs,
                 fee |-> fee,
                 signatures |-> << >>,
                 tx_hash |-> calculate_transaction_hash(inputs, outputs, fee, expiry_height),
                 expiry_height |-> expiry_height,
                 version |-> 5,
                 change_output |-> IF change_amount > 0 THEN Some(change) ELSE None]]

get_derivation_path_for_note(note) ==
    <<IF note.note_type = "Orchard" THEN "m/44'/133'/0'/0" ELSE "m/44'/133'/0'/1",
      IF note.position = None THEN 0 ELSE note.position[1]>>

derive_signing_key(cache, wallet, derivation_path, password) ==
    IF derivation_path \in DOMAIN cache
    THEN [kind |-> "Ok", key |-> cache[derivation_path], cache |-> cache]
    ELSE LET master_key == get_master_key(wallet, password)
         IN IF master_key.kind # "Ok"
            THEN [kind |-> master_key.kind, cache |-> cache]
            ELSE LET signing_key == SigningKey_from_bytes(master_key.key)
                 IN [kind |-> "Ok", key |-> signing_key,
                     cache |-> MapInsert(cache, derivation_path, signing_key)]

\* The `for (i, input) in transaction.inputs.iter().enumerate()` loop.
RECURSIVE SignLoop(_, _, _, _, _, _)
SignLoop(transaction, i, signatures, cache, wallet, password) ==
    IF i > Len(transaction.inputs)
    THEN [kind |-> "Ok", signatures |-> signatures, cache |-> cache]
    ELSE LET derivation_path == get_derivation_path_for_note(transaction.inputs[i].note)
             k == derive_signing_key(cache, wallet, derivation_path, password)
         IN IF k.kind # "Ok"
            THEN [kind |-> k.kind, cache |-> k.cache]
            ELSE SignLoop(transaction, i + 1,
                          Append(signatures,
                                 [signature |-> sign(k.key, transaction.tx_hash),
                                  public_key |-> verifying_key(k.key),
                                  algorithm |-> "EdDSA",
                                  tx_hash |-> transaction.tx_hash]),
                          k.cache, wallet, password)

\* Mutant: the last input is left unsigned.
sign_transaction_with_notes_skip_last(transaction, cache, wallet, password) ==
    LET r == SignLoop(transaction, 1, << >>, cache, wallet, password)
    IN IF r.kind # "Ok"
       THEN [kind |-> r.kind, cache |-> r.cache]
       ELSE [kind |-> "Ok", cache |-> r.cache,
             transaction |->
                [transaction EXCEPT
                    !.signatures = SubSeq(r.signatures, 1, Len(r.signatures) - 1)]]

sign_transaction_with_notes(transaction, cache, wallet, password) ==
    LET r == SignLoop(transaction, 1, << >>, cache, wallet, password)
    IN IF r.kind # "Ok"
       THEN [kind |-> r.kind, cache |-> r.cache]
       ELSE [kind |-> "Ok", cache |-> r.cache,
             transaction |-> [transaction EXCEPT !.signatures = r.signatures]]

\* The `for (i, signature) in transaction.signatures.iter().enumerate()` loop.
RECURSIVE VerifyLoop(_, _)
VerifyLoop(transaction, i) ==
    IF i > Len(transaction.signatures)
    THEN [kind |-> "Ok", value |-> TRUE]
    ELSE LET signature == transaction.signatures[i]
         IN IF signature.public_key.len # 32 \/ signature.signature.len # 64
               \/ ~IsValidPoint(signature.public_key)
            THEN [kind |-> "InvalidOperation"]
            ELSE IF ~verify(signature.public_key, transaction.tx_hash, signature.signature)
            THEN [kind |-> "Ok", value |-> FALSE]
            ELSE VerifyLoop(transaction, i + 1)

verify_transaction(transaction) ==
    IF Len(transaction.signatures) # Len(transaction.inputs)
    THEN [kind |-> "Ok", value |-> FALSE]
    ELSE VerifyLoop(transaction, 1)

\* What a holder of a SignedTransaction can do to signature i through the public
\* fields `signatures[i].signature` and `signatures[i].public_key` (Vec<u8>):
\* flip a byte, push a byte, pop a byte.  A public key with a flipped byte is
\* either the encoding of another curve point or of no point at all.
TamperKinds ==
    {"flip_signature_byte", "flip_public_key_byte", "public_key_undecodable",
     "signature_longer", "signature_shorter", "public_key_longer", "public_key_shorter"}

TamperedSignature(signature, how) ==
    CASE how = "flip_signature_byte" ->
            [signature EXCEPT !.signature.sig = <<"flipped", @>>]
      [] how = "flip_public_key_byte" ->
            [signature EXCEPT !.public_key.point = <<"ed25519_pk", "another_point">>]
      [] how = "public_key_undecodable" ->
            [signature EXCEPT !.public_key.point = <<"not_a_point">>]
      [] how = "signature_longer" -> [signature EXCEPT !.signature.len = @ + 1]
      [] how = "signature_shorter" -> [signature EXCEPT !.signature.len = @ - 1]
      [] how = "public_key_longer" -> [signature EXCEPT !.public_key.len = @ + 1]
      [] how = "public_key_shorter" -> [signature EXCEPT !.public_key.len = @ - 1]

\* Mutant: the estimate runs the selection for the amount plus the base fee.
estimate_fee_with_notes_fee_included(ns, order, amount, strategy, checks) ==
    LET sel == select_notes_for_spending(ns, order, (amount + 1000) % U64Mod, strategy, checks)
    IN IF sel.kind # "Ok" THEN sel
       ELSE [kind |-> "Ok", value |-> 1000 + Len(sel.notes) * 500 + 2 * 500]

\* estimate_fee_with_notes: base fee 1000, 500 per selected input, 2 * 500 for
\* the two outputs, memo free.
estimate_fee_with_notes(ns, order, amount, strategy, checks) ==
    LET sel == select_notes_for_spending(ns, order, amount, strategy, checks)
        base_fee == 1000
        input_fee == (Len(sel.notes) * 500) % U64Mod
        output_fee == 2 * 500
        memo_fee == 0
    IN IF sel.kind # "Ok" THEN sel
       ELSE [kind |-> "Ok", value |-> base_fee + input_fee + output_fee + memo_fee]

InputIds(transaction) == [k \in 1..Len(transaction.inputs) |-> transaction.inputs[k].note.id]

mark_notes_spent(ns, transaction, block_height) ==
    MarkAllSpent(ns, InputIds(transaction), block_height)

\* ------------------------------------------------------------------ actions
\* The CommitmentTree of NoteManager::new.
NewCommitmentTree == [depth |-> TreeDepth, size |-> 0, root |-> Zero32, nodes |-> << >>]

Init ==
    /\ notes = << >>
    /\ iter_order = << >>
    /\ commitment_tree = NewCommitmentTree
    /\ enable_consolidation \in BOOLEAN
    /\ rng = 0
    /\ held = << >>
    /\ overflow_checks \in BOOLEAN
    /\ signing_keys = << >>
    /\ tx = None
    /\ last = [op |-> "new", kind |-> "Ok"]

\* A panic aborts the process: nothing runs after it.
Running == last.kind # "Panic"

CreateNote(inputs, max) ==
    /\ Running
    /\ rng < max
    /\ \E inp \in inputs, addr \in Addresses :
         LET r == create_note(commitment_tree, notes, inp.value, addr, inp.note_type,
                              inp.block_height, rng + 1)
         IN /\ commitment_tree' = r.tree
            /\ notes' = r.notes
            /\ held' = Append(held, r.note)
            /\ last' = [op |-> "create_note", kind |-> "Ok", note |-> r.note]
    /\ rng' = rng + 1
    /\ UNCHANGED <<iter_order, enable_consolidation, overflow_checks, signerVars>>

AddNote(max) ==
    /\ Running
    /\ \E h \in 1..Len(held), p \in 0..Len(iter_order) :
         /\ IF held[h].id \in DOMAIN notes THEN p = 0 ELSE Len(iter_order) < max
         /\ notes' = MapInsert(notes, held[h].id, held[h])
         /\ iter_order' = OrderInsert(iter_order, held[h].id, p)
         /\ last' = [op |-> "add_note", kind |-> "Ok"]
    /\ UNCHANGED <<commitment_tree, enable_consolidation, rng, held, overflow_checks, signerVars>>

MarkNoteSpent(heights) ==
    /\ Running
    /\ \E id \in DOMAIN notes \cup {UnknownId}, h \in heights :
         /\ notes' = mark_note_spent(notes, id, h)
         /\ last' = [op |-> "mark_note_spent", kind |-> "Ok", id |-> id]
    /\ UNCHANGED <<iter_order, commitment_tree, enable_consolidation, rng, held, overflow_checks,
                   signerVars>>

ConsolidateNotes(max) ==
    /\ Running
    /\ LET r == consolidate_notes(commitment_tree, notes, iter_order, enable_consolidation,
                                  rng + 1)
       IN /\ r.result # << >> => rng <= max
          /\ commitment_tree' = r.tree
          /\ notes' = r.notes
          /\ held' = held \o r.result
          /\ rng' = rng + Len(r.result)
          /\ last' = [op |-> "consolidate_notes", kind |-> "Ok", result |-> r.result]
    /\ UNCHANGED <<iter_order, enable_consolidation, overflow_checks, signerVars>>

SelectNotes(amounts, strategies) ==
    /\ Running
    /\ \E amount \in amounts, strategy \in strategies :
         LET r == select_notes_for_spending(notes, iter_order, amount, strategy, overflow_checks)
         IN last' = [op |-> "select_notes_for_spending", kind |-> r.kind, amount |-> amount,
                     strategy |-> strategy, result |-> r]
    /\ UNCHANGED <<ledgerVars, overflow_checks, signerVars>>

GetTotalBalance ==
    /\ Running
    /\ LET r == get_total_balance(notes, iter_order, overflow_checks)
       IN last' = [op |-> "get_total_balance", kind |-> IF r.panic THEN "Panic" ELSE "Ok",
                   value |-> r.value]
    /\ UNCHANGED <<ledgerVars, overflow_checks, signerVars>>

GetBalanceByType ==
    /\ Running
    /\ \E note_type \in NoteTypes :
         LET r == get_balance_by_type(notes, iter_order, note_type, overflow_checks)
         IN last' = [op |-> "get_balance_by_type", kind |-> IF r.panic THEN "Panic" ELSE "Ok",
                     note_type |-> note_type, value |-> r.value]
    /\ UNCHANGED <<ledgerVars, overflow_checks, signerVars>>

\* Mutant: a build that marks the notes it selected as spent.
BuildTransactionMarksSpent(amounts, fees, strategies) ==
    /\ Running
    /\ \E amount \in amounts, fee \in fees, strategy \in strategies :
         LET r == build_transaction_with_notes(notes, iter_order, "u1recipient", amount, fee,
                                               None, 100, strategy, overflow_checks)
         IN /\ r.kind = "Ok"
            /\ tx' = Some([transaction |-> r.transaction, stage |-> "Unsigned"])
            /\ notes' = mark_notes_spent(notes, r.transaction, 0)
            /\ last' = [op |-> "build_transaction_with_notes", kind |-> r.kind,
                        amount |-> amount, fee |-> fee, strategy |-> strategy,
                        result |-> [kind |-> "Ok"]]
    /\ UNCHANGED <<iter_order, commitment_tree, enable_consolidation, rng, held,
                   overflow_checks, signing_keys>>

BuildTransaction(amounts, fees, strategies) ==
    /\ Running
    /\ \E amount \in amounts, fee \in fees, strategy \in strategies :
         LET r == build_transaction_with_notes(notes, iter_order, "u1recipient", amount, fee,
                                               None, 100, strategy, overflow_checks)
         IN /\ tx' = IF r.kind = "Ok"
                     THEN Some([transaction |-> r.transaction, stage |-> "Unsigned"])
                     ELSE tx
            /\ last' = [op |-> "build_transaction_with_notes", kind |-> r.kind,
                        amount |-> amount, fee |-> fee, strategy |-> strategy,
                        result |-> IF r.kind = "Ok" THEN [kind |-> "Ok"] ELSE r]
    /\ UNCHANGED <<ledgerVars, overflow_checks, signing_keys>>

\* The caller signs the transfer it holds; on an error it keeps its copy.
SignTransaction ==
    /\ Running
    /\ tx # None
    /\ \E password \in Passwords :
         LET r == sign_transaction_with_notes(tx[1].transaction, signing_keys, hd_wallet,
                                              password)
         IN /\ signing_keys' = r.cache
            /\ tx' = IF r.kind = "Ok"
                     THEN Some([transaction |-> r.transaction, stage |-> "Signed"])
                     ELSE tx
            /\ last' = [op |-> "sign_transaction_with_notes", kind |-> r.kind,
                        password |-> password]
    /\ UNCHANGED <<ledgerVars, overflow_checks>>

VerifyTransaction ==
    /\ Running
    /\ tx # None
    /\ LET r == verify_transaction(tx[1].transaction)
       IN last' = [op |-> "verify_transaction", kind |-> r.kind, result |-> r]
    /\ UNCHANGED <<ledgerVars, overflow_checks, signerVars>>

EstimateFee(amounts, strategies) ==
    /\ Running
    /\ \E amount \in amounts, strategy \in strategies :
         LET r == estimate_fee_with_notes(notes, iter_order, amount, strategy, overflow_checks)
         IN last' = [op |-> "estimate_fee_with_notes", kind |-> r.kind, amount |-> amount,
                     strategy |-> strategy, value |-> IF r.kind = "Ok" THEN r.value ELSE 0]
    /\ UNCHANGED <<ledgerVars, overflow_checks, signerVars>>

\* The holder of a signed transfer tampers with one of its signatures.
TamperSignature ==
    /\ Running
    /\ tx # None
    /\ tx[1].stage = "Signed"
    /\ \E i \in 1..Len(tx[1].transaction.signatures), how \in TamperKinds :
         /\ tx' = Some([transaction |->
                           [tx[1].transaction EXCEPT
                               !.signatures[i] = TamperedSignature(@, how)],
                        stage |-> "Tampered"])
         /\ last' = [op |-> "tamper", kind |-> "Ok", how |-> how]
    /\ UNCHANGED <<ledgerVars, overflow_checks, signing_keys>>

MarkNotesSpent(heights) ==
    /\ Running
    /\ tx # None
    /\ \E h \in heights :
         /\ notes' = mark_notes_spent(notes, tx[1].transaction, h)
         /\ last' = [op |-> "mark_notes_spent", kind |-> "Ok"]
    /\ UNCHANGED <<iter_order, commitment_tree, enable_consolidation, rng, held, overflow_checks,
                   signerVars>>

\* The note ledger: every operation of NoteManager.
Next ==
    \/ CreateNote(LedgerNoteInputs, MaxLedgerNotes)
    \/ AddNote(MaxLedgerNotes)
    \/ MarkNoteSpent(SpentHeights)
    \/ ConsolidateNotes(MaxLedgerNotes)
    \/ SelectNotes({10000}, {None})
    \/ GetTotalBalance

Spec == Init /\ [][Next]_vars

\* Selection over ledgers that hold large values: every amount and strategy.
SelectionNext ==
    \/ CreateNote(NoteInputs, MaxNotes)
    \/ AddNote(MaxNotes)
    \/ MarkNoteSpent({1})
    \/ SelectNotes(Amounts, StrategyArgs)

SelectionInit == Init /\ enable_consolidation

SelectionSpec == SelectionInit /\ [][SelectionNext]_vars

\* The transaction signer and the ledger it owns.
SignerNext ==
    \/ CreateNote(LedgerNoteInputs, SignerMaxNotes)
    \/ AddNote(SignerMaxNotes)
    \/ BuildTransaction({0, 11000}, {0, 1000}, {None})
    \/ SignTransaction
    \/ VerifyTransaction
    \/ EstimateFee({11000}, {None})
    \/ MarkNotesSpent({1})

SignerSpec == SelectionInit /\ [][SignerNext]_vars

\* The verifier: a transfer is built, signed, tampered with and verified.
VerifierNext ==
    \/ CreateNote(LedgerNoteInputs, SignerMaxNotes)
    \/ AddNote(SignerMaxNotes)
    \/ BuildTransaction({11000}, {0}, {None})
    \/ SignTransaction
    \/ TamperSignature
    \/ VerifyTransaction

VerifierSpec == SelectionInit /\ [][VerifierNext]_vars

\* Building and estimating over ledgers and amounts up to the width of u64.
BuildNext ==
    \/ CreateNote(NoteInputs, SignerMaxNotes)
    \/ AddNote(SignerMaxNotes)
    \/ SelectNotes(Amounts, {None})
    \/ BuildTransaction(Amounts, {0, 1000}, {None})
    \/ EstimateFee(Amounts, {None})

BuildSpec == SelectionInit /\ [][BuildNext]_vars

\* Balances over ledgers whose note values go up to the width of u64.
BalanceNext ==
    \/ CreateNote(NoteInputs, SignerMaxNotes)
    \/ AddNote(SignerMaxNotes)
    \/ MarkNoteSpent({1})
    \/ GetTotalBalance
    \/ GetBalanceByType

BalanceSpec == SelectionInit /\ [][BalanceNext]_vars

\* Selection by strategy over ledgers of small notes.
StrategyNext ==
    \/ CreateNote(StrategyNoteInputs, MaxStrategyNotes)
    \/ AddNote(MaxStrategyNotes)
    \/ MarkNoteSpent({1})
    \/ SelectNotes(StrategyAmounts, {None, Some("ValueBased")})

StrategySpec == SelectionInit /\ [][StrategyNext]_vars

\* Fee estimation over ledgers of two kinds of notes.
FeeNext ==
    \/ CreateNote(LedgerNoteInputs, SignerMaxNotes)
    \/ AddNote(SignerMaxNotes)
    \/ MarkNoteSpent({1})
    \/ EstimateFee(FeeAmounts, {None, Some("ValueBased")})

FeeSpec == SelectionInit /\ [][FeeNext]_vars

\* Selection over ledgers whose running total can pass the width of u64.
WrapNext ==
    \/ CreateNote(WrapNoteInputs, MaxNotes)
    \/ AddNote(MaxNotes)
    \/ SelectNotes({0, U64Mod - 1}, {Some("Balanced")})

WrapSpec == SelectionInit /\ [][WrapNext]_vars

\* Consolidation over ledgers of more small notes than max_consolidation_notes.
ConsolidationNext ==
    \/ CreateNote(LedgerNoteInputs, MaxNotes)
    \/ AddNote(MaxNotes)
    \/ ConsolidateNotes(MaxNotes)
    \/ GetTotalBalance

ConsolidationSpec == Init /\ [][ConsolidationNext]_vars

\* ------------------------------------------------------------------ claims
MarkingOps == {"mark_note_spent", "mark_notes_spent", "consolidate_notes"}

\* C1: once a ledger note's nullifier is set, no create_note, add_note,
\* mark_note_spent or consolidate_notes call clears it or gives it another value.
NullifierNeverCleared ==
    [][\A id \in DOMAIN notes :
          notes[id].nullifier # None =>
              id \in DOMAIN notes' /\ notes'[id].nullifier = notes[id].nullifier]_vars

\* C2: a note goes from unspent to spent exactly once: spent_at_height leaves
\* None only in a call that marks notes spent, and once it is Some(h) no later
\* mark_note_spent (whatever its height) or consolidate_notes call changes it.
SpentExactlyOnce ==
    [][\A id \in DOMAIN notes :
          /\ (notes[id].spent_at_height # None /\ last'.op \in MarkingOps) =>
                notes'[id].spent_at_height = notes[id].spent_at_height
          /\ (notes[id].spent_at_height = None /\ notes'[id].spent_at_height # None) =>
                last'.op \in MarkingOps]_vars

\* Recomputing a root from a leaf and a path: the sibling is on the right when
\* the index at that level is even, on the left when it is odd.
RECURSIVE RecomputeRoot(_, _, _)
RecomputeRoot(node, index, path) ==
    IF path = << >> THEN node
    ELSE RecomputeRoot(IF index % 2 = 0 THEN <<"blake2b", node, path[1]>>
                       ELSE <<"blake2b", path[1], node>>,
                       index \div 2, Tail(path))

\* C3: for every tree of n >= 1 leaves and every position i < n, the Merkle
\* path returned for i recomputes the tree root from leaf i.
MerklePathRecomputesRoot ==
    \A i \in 0..(commitment_tree.size - 1) :
        RecomputeRoot(commitment_tree.nodes[i + 1], i,
                      calculate_merkle_path(commitment_tree, i)) = commitment_tree.root

\* The hash-tree root of a non-empty leaf sequence: nodes are paired left to
\* right, the last node of an odd-sized level with itself.
RECURSIVE HashTreeRoot(_)
HashTreeRoot(level) ==
    IF Len(level) = 1 THEN level[1]
    ELSE LET pairs == (Len(level) + 1) \div 2
             Left(k) == level[2 * k - 1]
             Right(k) == IF 2 * k > Len(level) THEN Left(k) ELSE level[2 * k]
         IN HashTreeRoot([k \in 1..pairs |-> <<"blake2b", Left(k), Right(k)>>])

\* C4: in every reachable state, commitment_tree.size is the number of stored
\* leaves and commitment_tree.root is the hash-tree root of the leaf sequence
\* (a single-leaf tree has that leaf as its root).
TreeRootIsHashTreeRoot ==
    /\ commitment_tree.size = Len(commitment_tree.nodes)
    /\ commitment_tree.nodes # << >> =>
          commitment_tree.root = HashTreeRoot(commitment_tree.nodes)
    /\ commitment_tree.size = 1 => commitment_tree.root = commitment_tree.nodes[1]

TreeRootWitness ==
    /\ commitment_tree.size = 3
    /\ commitment_tree.root =
          <<"blake2b",
            <<"blake2b", commitment_tree.nodes[1], commitment_tree.nodes[2]>>,
            <<"blake2b", commitment_tree.nodes[3], commitment_tree.nodes[3]>>>>

\* C5: the tree is append-only: in every step the old leaf sequence is a prefix
\* of the new one, and a step that marks a note spent leaves the tree unchanged.
TreeAppendOnly ==
    [][/\ IsPrefix(commitment_tree.nodes, commitment_tree'.nodes)
       /\ last'.op \in {"mark_note_spent", "mark_notes_spent", "add_note",
                        "select_notes_for_spending", "get_total_balance"} =>
             commitment_tree' = commitment_tree]_vars

TreeAppendOnlyWitness ==
    /\ last.op = "mark_note_spent"
    /\ last.id \in DOMAIN notes
    /\ notes[last.id].nullifier # None
    /\ commitment_tree.size >= 2

\* C6: the note create_note returns, and the ledger note under that id, has
\* position = Some(tree size before the call) and merkle_path = Some(the path
\* computed for that position).
CreateNoteBackfillsPosition ==
    /\ last.op = "create_note" =>
          /\ last.note.position = Some(commitment_tree.size - 1)
          /\ last.note.merkle_path =
                Some(calculate_merkle_path(commitment_tree, commitment_tree.size - 1))
    /\ \A id \in DOMAIN notes :
          /\ notes[id].position # None
          /\ notes[id].merkle_path # None

\* C7 as stated: the position of leaf i and the path computed for leaf i are
\* unchanged by later insertions.
PathStableUnderInsertion ==
    [][\A i \in 0..(commitment_tree.size - 1) :
          /\ commitment_tree'.nodes[i + 1] = commitment_tree.nodes[i + 1]
          /\ calculate_merkle_path(commitment_tree', i) =
                calculate_merkle_path(commitment_tree, i)]_vars

\* C7 as amended: the position of leaf i is unchanged by later insertions (the
\* leaf at index i stays the same leaf); the path computed for leaf i is
\* recomputed from the current tree size and only never gets shorter.
PositionStableUnderInsertion ==
    [][\A i \in 0..(commitment_tree.size - 1) :
          /\ i < commitment_tree'.size
          /\ commitment_tree'.nodes[i + 1] = commitment_tree.nodes[i + 1]
          /\ Len(calculate_merkle_path(commitment_tree', i)) >=
                Len(calculate_merkle_path(commitment_tree, i))]_vars

PositionStableWitness ==
    /\ last.op = "create_note"
    /\ commitment_tree.size >= 2
    /\ commitment_tree.nodes[1] = held[1].commitment
    /\ calculate_merkle_path(commitment_tree, 0) # << >>

UnspentTotal == SumSeq(Values(get_unspent_notes(notes, iter_order)))

\* C8: if select_notes_for_spending succeeds, the returned values sum to at
\* least the amount; if it fails, the values of all unspent notes sum to less
\* than the amount.
SelectionSufficiency ==
    last.op = "select_notes_for_spending" =>
        /\ last.kind = "Ok" => SumSeq(Values(last.result.notes)) >= last.amount
        /\ last.kind = "InsufficientFunds" => UnspentTotal < last.amount

\* C9: a failed selection reports required = the requested amount and
\* available = the sum of the values of all unspent notes of the ledger.
InsufficientFundsReportsTotal ==
    (last.op = "select_notes_for_spending" /\ last.kind = "InsufficientFunds") =>
        /\ last.result.required = last.amount
        /\ last.result.available = UnspentTotal

\* C10: a transfer returned by a successful build and then signed by a
\* successful sign makes verify_transaction return true.
RoundTripSigning ==
    (last.op = "verify_transaction" /\ tx[1].stage = "Signed") =>
        (last.kind = "Ok" /\ last.result.value = TRUE)

RoundTripWitness ==
    /\ last.op = "verify_transaction"
    /\ tx[1].stage = "Signed"
    /\ Len(tx[1].transaction.inputs) >= 2
    /\ last.kind = "Ok"
    /\ last.result.value = TRUE

\* C11: verify_transaction returns the value false, never an error, for every
\* tampered transfer: a flipped byte, an added or removed byte, or a public key
\* that does not decode, in any signature or public key.
TamperedVerifiesFalse ==
    (last.op = "verify_transaction" /\ tx[1].stage = "Tampered") =>
        (last.kind = "Ok" /\ last.result.value = FALSE)

\* C12: signing is all-or-nothing: a successful sign_transaction_with_notes
\* yields exactly one signature per input, in input order, each made over the
\* transfer's tx_hash with the key of that input; a failed one yields no
\* transfer at all, so no transfer with a partial signature list exists.
SigningAllOrNothing ==
    [][(last'.op = "sign_transaction_with_notes" /\ tx # None) =>
          IF last'.kind = "Ok"
          THEN LET t == tx'[1].transaction
                   key(k) == signing_keys'[get_derivation_path_for_note(t.inputs[k].note)]
               IN /\ t.inputs = tx[1].transaction.inputs
                  /\ Len(t.signatures) = Len(t.inputs)
                  /\ \A k \in 1..Len(t.inputs) :
                        /\ t.signatures[k].tx_hash = t.tx_hash
                        /\ t.signatures[k].signature = sign(key(k), t.tx_hash)
                        /\ t.signatures[k].public_key = verifying_key(key(k))
          ELSE /\ tx' = tx
               /\ Len(tx[1].transaction.signatures) \in {0, Len(tx[1].transaction.inputs)}]_vars

\* A sign call that fails at the second input, after the first input's key was
\* found in the cache.
SigningFailsMidwayWitness ==
    /\ last.op = "sign_transaction_with_notes"
    /\ last.kind # "Ok"
    /\ Len(tx[1].transaction.inputs) >= 2
    /\ get_derivation_path_for_note(tx[1].transaction.inputs[1].note) \in DOMAIN signing_keys
    /\ tx[1].transaction.signatures = << >>

InputTotal(transaction) ==
    SumSeq([k \in 1..Len(transaction.inputs) |-> transaction.inputs[k].note.value])

OutputTotal(transaction) ==
    SumSeq([k \in 1..Len(transaction.outputs) |-> transaction.outputs[k].value])

\* C13: after every successful build_transaction_with_notes(recipient, amount,
\* fee, ..) the first output pays amount to recipient; with change = (sum of
\* input values) - amount - fee, a change output of that value is the second
\* output and change_output exactly when change > 0, there is a single output
\* and no change_output when change = 0, and inputs = outputs + fee.
BuildBalances ==
    (last.op = "build_transaction_with_notes" /\ last.kind = "Ok") =>
        LET t == tx[1].transaction
            change == InputTotal(t) - last.amount - last.fee
        IN /\ t.outputs[1].address = "u1recipient"
           /\ t.outputs[1].value = last.amount
           /\ change >= 0
           /\ change > 0 =>
                 /\ Len(t.outputs) = 2
                 /\ t.outputs[2].value = change
                 /\ t.change_output = Some(t.outputs[2])
           /\ change = 0 => (Len(t.outputs) = 1 /\ t.change_output = None)
           /\ InputTotal(t) = OutputTotal(t) + t.fee

SignerOps ==
    {"build_transaction_with_notes", "sign_transaction_with_notes", "verify_transaction",
     "estimate_fee_with_notes"}

\* C14: build_transaction_with_notes, sign_transaction_with_notes,
\* verify_transaction and estimate_fee_with_notes leave the ledger and the
\* commitment tree unchanged, and a note goes from unspent to spent only in a
\* mark_notes_spent / mark_note_spent call.
SignerNeverMarksSpent ==
    [][/\ last'.op \in SignerOps =>
             (notes' = notes /\ iter_order' = iter_order
                 /\ commitment_tree' = commitment_tree)
       /\ \A id \in DOMAIN notes :
             (id \in DOMAIN notes'
                 /\ (notes'[id].nullifier # notes[id].nullifier
                        \/ notes'[id].spent_at_height # notes[id].spent_at_height)
                 /\ notes'[id].spent_at_height # None) =>
                   last'.op \in {"mark_notes_spent", "mark_note_spent"}]_vars

\* A transfer was built, signed and verified, and its input notes are still
\* unspent in the ledger.
SignerNeverMarksSpentWitness ==
    /\ last.op = "verify_transaction"
    /\ tx[1].stage = "Signed"
    /\ Len(tx[1].transaction.inputs) >= 1
    /\ \A k \in 1..Len(tx[1].transaction.inputs) :
          LET id == tx[1].transaction.inputs[k].note.id
          IN id \in DOMAIN notes /\ notes[id].spent_at_height = None
                /\ notes[id].nullifier = None

\* C15: select_notes_for_spending and build_transaction_with_notes never abort
\* and never wrap: each either returns an error or a selection whose values
\* sum, as unbounded integers, to at least amount (resp. amount + fee).
NoOverflowOnCallerValues ==
    /\ last.kind # "Panic"
    /\ (last.op = "select_notes_for_spending" /\ last.kind = "Ok") =>
          SumSeq(Values(last.result.notes)) >= last.amount
    /\ (last.op = "build_transaction_with_notes" /\ last.kind = "Ok") =>
          InputTotal(tx[1].transaction) >= last.amount + last.fee

\* C16: the tree never holds more than 2^depth leaves: a create_note call on a
\* tree of 2^depth leaves fails with TreeFull and leaves the tree and the
\* ledger unchanged.
TreeFullRejected ==
    [][/\ commitment_tree'.size <= 2 ^ commitment_tree'.depth
       /\ (last'.op = "create_note" /\ commitment_tree.size = 2 ^ commitment_tree.depth) =>
             /\ last'.kind = "TreeFull"
             /\ commitment_tree' = commitment_tree
             /\ notes' = notes]_vars

SelectionDeterministic ==
    \A other \in IterationOrders(iter_order), amount \in Amounts, strategy \in StrategyArgs :
        select_notes_for_spending(notes, other, amount, strategy, overflow_checks)
            = select_notes_for_spending(notes, iter_order, amount, strategy, overflow_checks)

\* A second, independent NoteManager into which the given commitments are
\* inserted in order, one add_note_to_tree call each, into an empty ledger.
RECURSIVE SecondInstance(_)
SecondInstance(commitments) ==
    IF commitments = << >> THEN NewCommitmentTree
    ELSE LET c == commitments[Len(commitments)]
         IN add_note_to_tree(SecondInstance(SubSeq(commitments, 1, Len(commitments) - 1)),
                             << >>, [id |-> c, commitment |-> c]).tree

\* C19: a second instance into which the same commitments are inserted in the
\* same order has the same root after every insertion and the same path for
\* every position, whatever else happened to this instance's ledger.
TreeDeterministic ==
    LET other == SecondInstance(commitment_tree.nodes)
    IN /\ other.root = commitment_tree.root
       /\ other.size = commitment_tree.size
       /\ \A i \in 0..(commitment_tree.size - 1) :
             calculate_merkle_path(other, i) = calculate_merkle_path(commitment_tree, i)

\* Three insertions into this instance, interleaved with ledger operations
\* that the second instance never saw.
TreeDeterministicWitness ==
    /\ commitment_tree.size = 3
    /\ commitment_tree.root # Zero32
    /\ \E id \in DOMAIN notes : notes[id].nullifier # None
    /\ SecondInstance(commitment_tree.nodes).root = commitment_tree.root

\* The tree hash function applied once to 32 zero bytes.
DigestOfZero == <<"blake2b", Zero32>>

\* C20: the root of an empty tree, of a freshly constructed NoteManager and as
\* computed by calculate_tree_root on zero leaves, is the tree hash of 32 zero
\* bytes, not the raw 32 zero bytes.
EmptyRootIsDigestOfZero ==
    /\ calculate_tree_root(<< >>) = DigestOfZero
    /\ commitment_tree.size = 0 => commitment_tree.root = DigestOfZero

\* C21: mark_note_spent(id, h) with an id that is not in the ledger returns
\* success and leaves every note and the commitment tree unchanged.
UnknownIdIsNoOp ==
    [][(last'.op = "mark_note_spent" /\ last'.id \notin DOMAIN notes) =>
          /\ last'.kind = "Ok"
          /\ notes' = notes
          /\ iter_order' = iter_order
          /\ commitment_tree' = commitment_tree]_vars

UnknownIdIsNoOpWitness ==
    /\ last.op = "mark_note_spent"
    /\ last.kind = "Ok"
    /\ last.id \notin DOMAIN notes
    /\ \E id \in DOMAIN notes : notes[id].spent_at_height = None

UnspentTotalOfType(note_type) ==
    SumSeq(Values(SelectSeq(MapValues(notes, iter_order),
                            LAMBDA note : note.note_type = note_type /\ note.nullifier = None)))

\* C22: in every ledger state get_total_balance is the sum of the values of
\* exactly the notes whose nullifier is None, get_balance_by_type(t) is that sum
\* over the notes of type t, and the total is the Orchard balance plus the
\* Sapling balance.
BalanceIsUnspentSum ==
    LET total == get_total_balance(notes, iter_order, overflow_checks)
        orchard == get_balance_by_type(notes, iter_order, "Orchard", overflow_checks)
        sapling == get_balance_by_type(notes, iter_order, "Sapling", overflow_checks)
    IN /\ ~total.panic /\ total.value = UnspentTotal
       /\ ~orchard.panic /\ orchard.value = UnspentTotalOfType("Orchard")
       /\ ~sapling.panic /\ sapling.value = UnspentTotalOfType("Sapling")
       /\ total.value = orchard.value + sapling.value
       /\ last.op = "get_total_balance" => (last.kind = "Ok" /\ last.value = UnspentTotal)
       /\ last.op = "get_balance_by_type" =>
             (last.kind = "Ok" /\ last.value = UnspentTotalOfType(last.note_type))

StrategyOrdered ==
    SortForStrategy(get_unspent_notes(notes, iter_order),
                    IF last.strategy = None THEN DefaultStrategy ELSE last.strategy[1])

\* C24: a successful select_notes_for_spending returns the shortest prefix of
\* the strategy-ordered unspent notes whose values sum to at least the amount:
\* the notes but the last sum to less than the amount, no note is returned
\* twice, every returned note is unspent, and amount = 0 returns no note.
GreedyShortestPrefix ==
    (last.op = "select_notes_for_spending" /\ last.kind = "Ok") =>
        LET r == last.result.notes
        IN /\ IsPrefix(r, StrategyOrdered)
           /\ SumSeq(Values(r)) >= last.amount
           /\ r # << >> => SumSeq(Values(SubSeq(r, 1, Len(r) - 1))) < last.amount
           /\ \A i, j \in 1..Len(r) : i # j => r[i].id # r[j].id
           /\ \A k \in 1..Len(r) :
                 r[k].id \in DOMAIN notes /\ notes[r[k].id].nullifier = None
           /\ last.amount = 0 => r = << >>

\* C25: with strategy ValueBased the returned notes are in non-increasing order
\* of value and every unspent note left out has a value <= the value of every
\* returned note.
ValueBasedLargestFirst ==
    (last.op = "select_notes_for_spending" /\ last.kind = "Ok"
        /\ last.strategy = Some("ValueBased")) =>
        LET r == last.result.notes
            taken == {r[k].id : k \in 1..Len(r)}
        IN /\ \A k \in 1..(Len(r) - 1) : r[k].value >= r[k + 1].value
           /\ \A id \in DOMAIN notes :
                 (notes[id].nullifier = None /\ id \notin taken) =>
                     \A k \in 1..Len(r) : notes[id].value <= r[k].value

\* Unspent values {100, 300, 250} and amount 400 return 300 then 250.
ValueBasedWitness ==
    /\ last.op = "select_notes_for_spending"
    /\ last.kind = "Ok"
    /\ last.strategy = Some("ValueBased")
    /\ last.amount = 400
    /\ Values(last.result.notes) = <<300, 250>>
    /\ \E id \in DOMAIN notes : notes[id].nullifier = None /\ notes[id].value = 100

\* C26: with strategy PrivacyFirst no Sapling note precedes an Orchard note in
\* the returned sequence, and a Sapling note is returned only if every unspent
\* Orchard note of the ledger is returned too.
PrivacyFirstOrchardFirst ==
    (last.op = "select_notes_for_spending" /\ last.kind = "Ok"
        /\ (IF last.strategy = None THEN DefaultStrategy ELSE last.strategy[1])
              = "PrivacyFirst") =>
        LET r == last.result.notes
            taken == {r[k].id : k \in 1..Len(r)}
        IN /\ \A i, j \in 1..Len(r) :
                 (r[i].note_type = "Sapling" /\ r[j].note_type = "Orchard") => j < i
           /\ (\E k \in 1..Len(r) : r[k].note_type = "Sapling") =>
                 \A id \in DOMAIN notes :
                     (notes[id].nullifier = None /\ notes[id].note_type = "Orchard") =>
                         id \in taken

\* An Orchard note then a Sapling note are returned from a ledger iterated
\* Sapling first, next to a spent Orchard note.
PrivacyFirstWitness ==
    /\ last.op = "select_notes_for_spending"
    /\ last.kind = "Ok"
    /\ last.strategy = None
    /\ Len(last.result.notes) = 2
    /\ last.result.notes[1].note_type = "Orchard"
    /\ last.result.notes[2].note_type = "Sapling"
    /\ notes[iter_order[1]].note_type = "Sapling"
    /\ \E id \in DOMAIN notes :
          notes[id].nullifier # None /\ notes[id].note_type = "Orchard"

\* C27: once mark_notes_spent(t, h) has run, no later build on the same signer
\* returns an input note of t, whatever build, sign, verify, estimate_fee and
\* mark_notes_spent calls come in between: mark_notes_spent leaves every input
\* of t spent in the ledger, none of these calls makes a spent note unspent, and
\* a build returns only notes that are unspent in the ledger.
NoSelectionAfterSpend ==
    [][/\ last'.op = "mark_notes_spent" =>
             \A k \in 1..Len(tx[1].transaction.inputs) :
                 LET id == tx[1].transaction.inputs[k].note.id
                 IN id \in DOMAIN notes' /\ notes'[id].nullifier # None
       /\ last'.op \in SignerOps \cup {"mark_notes_spent"} =>
             \A id \in DOMAIN notes :
                 notes[id].nullifier # None =>
                     (id \in DOMAIN notes' /\ notes'[id].nullifier # None)
       /\ (last'.op = "build_transaction_with_notes" /\ last'.kind = "Ok") =>
             \A k \in 1..Len(tx'[1].transaction.inputs) :
                 LET id == tx'[1].transaction.inputs[k].note.id
                 IN id \in DOMAIN notes /\ notes[id].nullifier = None]_vars

\* A build that follows a mark_notes_spent: the ledger holds a spent note and
\* the new transfer spends another one.
NoSelectionAfterSpendWitness ==
    /\ last.op = "build_transaction_with_notes"
    /\ last.kind = "Ok"
    /\ tx[1].transaction.inputs # << >>
    /\ \E id \in DOMAIN notes : notes[id].spent_at_height = Some(1)
    /\ \A k \in 1..Len(tx[1].transaction.inputs) :
          notes[tx[1].transaction.inputs[k].note.id].nullifier = None

\* C28: sign_transaction_with_notes never returns signatures when the given
\* password does not decrypt the wallet's master key, whatever calls preceded
\* on the same TransactionSigner.
WrongPasswordNeverSigns ==
    (last.op = "sign_transaction_with_notes"
        /\ get_master_key(hd_wallet, last.password).kind # "Ok") =>
        (last.kind # "Ok" \/ tx[1].transaction.signatures = << >>)

\* C29: a transfer returned by build_transaction_with_notes and never signed
\* does not make verify_transaction return true, whatever the amount and the
\* fee, amount + fee = 0 included.
UnsignedNeverVerifies ==
    (last.op = "verify_transaction" /\ tx[1].stage = "Unsigned") =>
        ~(last.kind = "Ok" /\ last.result.value = TRUE)

\* The ids of the notes that are unspent before a step and spent after it.
SpentInStep ==
    {id \in DOMAIN notes : notes[id].nullifier = None /\ notes'[id].nullifier # None}

RECURSIVE SumOfValues(_, _)
SumOfValues(ns, ids) ==
    IF ids = {} THEN 0
    ELSE LET id == CHOOSE x \in ids : TRUE
         IN ns[id].value + SumOfValues(ns, ids \ {id})

\* C30: consolidate_notes conserves value: the note it returns has the sum of
\* the values of the notes it marks spent, for any number of small unspent
\* notes; when it returns an empty list it changes nothing, and it returns one
\* when consolidation is disabled or fewer than two small unspent notes exist.
ConsolidationConservesValue ==
    [][last'.op = "consolidate_notes" =>
          /\ last'.result = << >> =>
                (notes' = notes /\ commitment_tree' = commitment_tree)
          /\ last'.result # << >> =>
                last'.result[1].value = SumOfValues(notes, SpentInStep)
          /\ (~enable_consolidation
                 \/ Len(SelectSeq(MapValues(notes, iter_order), IsSmallUnspent)) < 2) =>
                last'.result = << >>]_vars
====
